---- MODULE Spec2Model ----
(***************************************************************************)
(* Model of server.py: the google.search tool of the google-search-mcp     *)
(* server.  The process reads its two secrets at import time and refuses   *)
(* to start without them; every tool call is checked against the declared  *)
(* input schema, builds the outbound query parameters, issues one GET to   *)
(* the Custom Search endpoint and, when the reply is a success, flattens   *)
(* the JSON body into {query, totalResults, results, nextStart}.           *)
(*                                                                         *)
(* Python None and an absent JSON member are the empty sequence <<>>; a    *)
(* present value v is <<v>>.  Plain strings that the code only passes on   *)
(* are TLA+ strings; the one string the code parses (totalResults) is a    *)
(* sequence of characters.                                                 *)
(***************************************************************************)
EXTENDS Integers, Sequences, FiniteSets, TLC

VARIABLES
    environ,          \* os.environ after load_dotenv(): the two secrets
    GOOGLE_API_KEY,   \* module global, line 14
    GOOGLE_CSE_ID,    \* module global, line 15
    server,           \* "boot" | "serving" | "failed"
    call,             \* per tool invocation: its arguments, locals, position, outcome
    wire              \* every outbound GET issued, in the order issued

vars == <<environ, GOOGLE_API_KEY, GOOGLE_CSE_ID, server, call, wire>>

----------------------------------------------------------------------------
(* Optional values *)

None == <<>>

Some(v) == <<v>>

Opt(S) == {None} \cup {Some(v) : v \in S}

\* Python truth value of an Optional[str]: None and "" are both falsy.
Truthy(o) == o # None /\ o[1] # ""

----------------------------------------------------------------------------
(* Bounds of the model *)

MaxItems == 3      \* longest upstream items list

MaxStart == 2      \* largest start index a caller sends

MaxStrLen == 2     \* longest totalResults string

NCalls == 2        \* concurrent invocations in SpecConc

(* Program constants *)

MinNum == 1

MaxNum == 10

DefaultNum == 5

MinStart == 1

DefaultStart == 1

TimeoutSecs == 20

ENDPOINT == "https://www.googleapis.com/customsearch/v1"

----------------------------------------------------------------------------
(* Startup: lines 12-18 *)

\* line 17: `not GOOGLE_API_KEY or not GOOGLE_CSE_ID`
ConfigMissingIsNone(key, cse) == key = None \/ cse = None

ConfigMissing(key, cse) == ~Truthy(key) \/ ~Truthy(cse)

Startup ==
    /\ server = "boot"
    /\ GOOGLE_API_KEY' = environ.GOOGLE_API_KEY
    /\ GOOGLE_CSE_ID' = environ.GOOGLE_CSE_ID
    /\ server' = IF ConfigMissing(environ.GOOGLE_API_KEY, environ.GOOGLE_CSE_ID)
                 THEN "failed"      \* RuntimeError at import: nothing is registered
                 ELSE "serving"
    /\ UNCHANGED <<environ, call, wire>>

----------------------------------------------------------------------------
(* The declared input schema: lines 27-40 *)

SafeEnum == {"off", "active"}

NumInRangeNoMax(n) == n >= MinNum

NumInRange(n) == n >= MinNum /\ n <= MaxNum

StartInRange(s) == s >= MinStart

\* args is the JSON object of the call: every property optional but query.
SchemaValid(args) ==
    /\ args.query # None
    /\ args.num # None => NumInRange(args.num[1])
    /\ args.start # None => StartInRange(args.start[1])
    /\ args.safe # None => args.safe[1] \in SafeEnum

\* Python binds the arguments to the signature's defaults: lines 42-51.
Bind(args) ==
    [query      |-> args.query[1],
     num        |-> IF args.num = None THEN DefaultNum ELSE args.num[1],
     start      |-> IF args.start = None THEN DefaultStart ELSE args.start[1],
     safe       |-> IF args.safe = None THEN "off" ELSE args.safe[1],
     lr         |-> args.lr,
     gl         |-> args.gl,
     cr         |-> args.cr,
     siteSearch |-> args.siteSearch]

----------------------------------------------------------------------------
(* Outbound parameters: lines 55-66 *)

OptionalParams == {"lr", "gl", "cr", "siteSearch"}

BaseParams == {"key", "cx", "q", "num", "start", "safe"}

\* `if lr: params["lr"] = lr`
IncludedIfNotNone(v) == v # None

Included(v) == Truthy(v)

\* params as a dict: a function whose domain is the set of keys sent.
BuildParams(a, key, cx) ==
    LET sent == BaseParams \cup {f \in OptionalParams : Included(a[f])}
    IN  [p \in sent |->
            CASE p = "key"   -> key
              [] p = "cx"    -> cx
              [] p = "q"     -> a.query
              [] p = "num"   -> a.num
              [] p = "start" -> a.start
              [] p = "safe"  -> a.safe
              [] OTHER       -> a[p][1]]

----------------------------------------------------------------------------
(* The reply: lines 70-71 *)

\* r.raise_for_status() raises HTTPStatusError unless the status is 2xx.
IsSuccessOnlyErrors(status) == status < 400

IsSuccess(status) == status >= 200 /\ status <= 299

----------------------------------------------------------------------------
(* Item projection: lines 73-82 *)

ProjectWrongMember(it) ==
    [title       |-> it.title,
     link        |-> it.link,
     snippet     |-> it.snippet,
     displayLink |-> it.link]

\* it.get(f) is None when the item has no member f; members not named are dropped.
Project(it) ==
    [title       |-> it.title,
     link        |-> it.link,
     snippet     |-> it.snippet,
     displayLink |-> it.displayLink]

\* data.get("items", [])
Items(data) == IF data.items = None THEN <<>> ELSE data.items[1]

Results(data) == [k \in 1..Len(Items(data)) |-> Project(Items(data)[k])]

----------------------------------------------------------------------------
(* totalResults: line 86 *)

JStr(s) == [t |-> "str", v |-> s]

JInt(n) == [t |-> "int", v |-> n]

\* data.get("searchInformation", {}).get("totalResults", 0)
TotalResultsRaw(data) ==
    IF data.searchInformation = None THEN JInt(0)
    ELSE IF data.searchInformation[1].totalResults = None THEN JInt(0)
    ELSE data.searchInformation[1].totalResults[1]

DigitVal ==
    "0" :> 0 @@ "1" :> 1 @@ "2" :> 2 @@ "3" :> 3 @@ "4" :> 4 @@
    "5" :> 5 @@ "6" :> 6 @@ "7" :> 7 @@ "8" :> 8 @@ "9" :> 9

SignChars == {"-", "+"}

Unsigned(s) == IF s # <<>> /\ s[1] \in SignChars THEN Tail(s) ELSE s

\* int(str) accepts an optional sign followed by one or more decimal digits.
IsIntLiteral(s) ==
    /\ Unsigned(s) # <<>>
    /\ \A k \in 1..Len(Unsigned(s)) : Unsigned(s)[k] \in DOMAIN DigitVal

RECURSIVE DigitsValue(_)
DigitsValue(s) ==
    IF s = <<>> THEN 0
    ELSE 10 * DigitsValue(SubSeq(s, 1, Len(s) - 1)) + DigitVal[s[Len(s)]]

LiteralValue(s) ==
    IF s[1] = "-" THEN 0 - DigitsValue(Unsigned(s)) ELSE DigitsValue(Unsigned(s))

\* int(x): the identity on an int, a parse of a str that raises ValueError
\* when the text is no integer literal.
PyInt(x) ==
    IF x.t = "int" THEN [ok |-> TRUE, val |-> x.v]
    ELSE IF IsIntLiteral(x.v) THEN [ok |-> TRUE, val |-> LiteralValue(x.v)]
    ELSE [ok |-> FALSE, val |-> 0]

----------------------------------------------------------------------------
(* nextStart: line 88 *)

NextStartAtLeast(start, num, results) ==
    IF Len(results) >= num THEN Some(start + num) ELSE None

NextStart(start, num, results) ==
    IF Len(results) = num THEN Some(start + num) ELSE None

----------------------------------------------------------------------------
(* The rest of the handler once the GET has an answer: lines 70-89 *)

Raised(kind) == [kind |-> kind]

StatusError(reply) ==
    [kind |-> "HTTPStatusError", status |-> reply.status, body |-> reply.body]

Returned(a, data, results) ==
    [kind  |-> "return",
     value |-> [query        |-> a.query,
                totalResults |-> PyInt(TotalResultsRaw(data)).val,
                results      |-> results,
                nextStart    |-> NextStart(a.start, a.num, results)]]

\* The local `results` is assigned at line 74 before line 86 can raise.
AfterReply(a, reply) ==
    IF ~IsSuccess(reply.status)
    THEN [results |-> None, outcome |-> StatusError(reply)]
    ELSE [results |-> Some(Results(reply.body)),
          outcome |-> IF PyInt(TotalResultsRaw(reply.body)).ok
                      THEN Returned(a, reply.body, Results(reply.body))
                      ELSE Raised("ValueError")]

----------------------------------------------------------------------------
(* State and actions *)

Idle ==
    [pc |-> "idle", args |-> None, params |-> None, reply |-> None,
     results |-> None, outcome |-> None]

Get(i, params) ==
    [call |-> i, url |-> ENDPOINT, params |-> params, timeout |-> TimeoutSecs]

\* A tool call arrives: the framework checks it against input_schema and, when
\* it conforms, runs google_search up to its await (lines 55-69).
ToolCall(i, args) ==
    /\ server = "serving"
    /\ call[i].pc = "idle"
    /\ IF ~SchemaValid(args)
       THEN /\ call' = [call EXCEPT ![i] = [@ EXCEPT !.pc = "rejected",
                                                     !.args = Some(args),
                                                     !.outcome = Some(Raised("ValidationError"))]]
            /\ UNCHANGED wire
       ELSE LET params == BuildParams(Bind(args), GOOGLE_API_KEY[1], GOOGLE_CSE_ID[1])
            IN  /\ call' = [call EXCEPT ![i] = [@ EXCEPT !.pc = "awaiting",
                                                         !.args = Some(args),
                                                         !.params = Some(params)]]
                /\ wire' = Append(wire, Get(i, params))
    /\ UNCHANGED <<environ, GOOGLE_API_KEY, GOOGLE_CSE_ID, server>>

\* As Respond, were the handler's arguments kept in one place shared by all
\* invocations: the reply is matched with the arguments of the latest GET.
RespondShared(i, reply) ==
    /\ call[i].pc = "awaiting"
    /\ LET after == AfterReply(Bind(call[wire[Len(wire)].call].args[1]), reply)
       IN  call' = [call EXCEPT ![i] = [@ EXCEPT !.pc = "done",
                                                 !.reply = Some(reply),
                                                 !.results = after.results,
                                                 !.outcome = Some(after.outcome)]]
    /\ UNCHANGED <<environ, GOOGLE_API_KEY, GOOGLE_CSE_ID, server, wire>>

\* The upstream answers: lines 70-89 run to the return or to an exception.
Respond(i, reply) ==
    /\ call[i].pc = "awaiting"
    /\ LET after == AfterReply(Bind(call[i].args[1]), reply)
       IN  call' = [call EXCEPT ![i] = [@ EXCEPT !.pc = "done",
                                                 !.reply = Some(reply),
                                                 !.results = after.results,
                                                 !.outcome = Some(after.outcome)]]
    /\ UNCHANGED <<environ, GOOGLE_API_KEY, GOOGLE_CSE_ID, server, wire>>

\* The connection fails: client.get raises and nothing after line 69 runs.
ConnectFail(i) ==
    /\ call[i].pc = "awaiting"
    /\ call' = [call EXCEPT ![i] = [@ EXCEPT !.pc = "done",
                                             !.outcome = Some(Raised("ConnectError"))]]
    /\ UNCHANGED <<environ, GOOGLE_API_KEY, GOOGLE_CSE_ID, server, wire>>

\* As TimedOut, were the GET issued once more after a timeout.
TimedOutRetry(i) ==
    /\ call[i].pc = "awaiting"
    /\ call' = [call EXCEPT ![i] = [@ EXCEPT !.pc = "done",
                                             !.outcome = Some(Raised("TimeoutException"))]]
    /\ wire' = Append(wire, Get(i, call[i].params[1]))
    /\ UNCHANGED <<environ, GOOGLE_API_KEY, GOOGLE_CSE_ID, server>>

\* As TimedOut, were the client built with no timeout: the wait never ends
\* on its own.
TimedOutNever(i) ==
    /\ call[i].pc = "awaiting"
    /\ UNCHANGED vars

\* No answer within timeout=20.0: client.get raises a TimeoutException.
TimedOut(i) ==
    /\ call[i].pc = "awaiting"
    /\ call' = [call EXCEPT ![i] = [@ EXCEPT !.pc = "done",
                                             !.outcome = Some(Raised("TimeoutException"))]]
    /\ UNCHANGED <<environ, GOOGLE_API_KEY, GOOGLE_CSE_ID, server, wire>>

----------------------------------------------------------------------------
(* Inputs *)

SeqsUpTo(S, n) == UNION {[1..k -> S] : k \in 0..n}

Envs ==
    [GOOGLE_API_KEY : Opt({"", "AIza-key"}), GOOGLE_CSE_ID : Opt({"", "cx-01"})]

\* Values at and around the schema's limits, and small enough to meet an
\* items list of the same length.
NumProbe == ((MinNum - 1)..(MaxItems + 1)) \cup {MaxNum, MaxNum + 1}

StartProbe == (MinStart - 1)..MaxStart

\* Every shape of call a client can send, conforming or not.
ArgsWide ==
    [query      : Opt({"", "rust"}),
     num        : Opt(NumProbe),
     start      : Opt(StartProbe),
     safe       : Opt({"off", "active", "strict"}),
     lr         : Opt({"", "lang_en"}),
     gl         : Opt({"", "us"}),
     cr         : Opt({"", "countryIN"}),
     siteSearch : Opt({"", "example.com"})]

\* Conforming calls that vary only what the response depends on.
ArgsPaging ==
    [query      : {Some("rust")},
     num        : Opt(MinNum..(MaxItems + 1)),
     start      : Opt(MinStart..MaxStart),
     safe       : {None},
     lr         : {None},
     gl         : {None},
     cr         : {None},
     siteSearch : {Some("example.com")}]

NoOptions == [lr |-> None, gl |-> None, cr |-> None, siteSearch |-> None]

CallArgs(q, n, st, extra) ==
    [query |-> q, num |-> n, start |-> st, safe |-> None, lr |-> extra.lr,
     gl |-> extra.gl, cr |-> extra.cr, siteSearch |-> extra.siteSearch]

\* Three calls that differ in everything a response repeats; the last does
\* not conform.
ArgsFew ==
    {CallArgs(Some("rust"), Some(1), None, [NoOptions EXCEPT !.lr = Some("lang_en")]),
     CallArgs(Some("go"), Some(2), Some(2), NoOptions),
     CallArgs(Some("go"), Some(MaxNum + 1), None, NoOptions)}

\* Upstream result entries: complete, lacking displayLink, and empty.  Each
\* carries a member the projection does not name.
Entry(n, t, l, s, d) ==
    [kind |-> n, title |-> t, link |-> l, snippet |-> s, displayLink |-> d]

EntryPool ==
    {Entry("customsearch#result", Some("Rust"), Some("https://rust-lang.org"),
           Some("A language"), Some("rust-lang.org")),
     Entry("customsearch#result", Some("Book"), Some("https://doc.rust-lang.org"),
           Some("The book"), None),
     Entry("customsearch#result", None, None, None, None)}

TotalChars == {"0", "1", "7", "-", "x"}

TotalValues == {JStr(s) : s \in SeqsUpTo(TotalChars, MaxStrLen)}

SearchInfos == Opt([totalResults : Opt(TotalValues)])

BodiesWide ==
    [items : Opt(SeqsUpTo(EntryPool, MaxItems)), searchInformation : SearchInfos]

Body(items, total) ==
    [items |-> items, searchInformation |-> Some([totalResults |-> total])]

BodiesFew ==
    {Body(Some(<<e>>), Some(JStr(<<"1", "7">>))) : e \in EntryPool}
        \cup {Body(None, None), Body(Some(<<>>), Some(JStr(<<"x">>)))}
        \cup {Body(Some(<<e, e>>), None) : e \in EntryPool}

ErrorBody == [items |-> None, searchInformation |-> None]

RepliesWide ==
    [status : {200}, body : BodiesWide] \cup [status : {403}, body : {ErrorBody}]

RepliesFew ==
    [status : {200}, body : BodiesFew] \cup [status : {500}, body : {ErrorBody}]

FullBody ==
    Body(Some(<<CHOOSE e \in EntryPool : e.displayLink # None>>),
         Some(JStr(<<"1", "7">>)))

RepliesNarrow ==
    [status : {200, 201}, body : {FullBody, ErrorBody}]
        \cup [status : {301, 403, 500}, body : {ErrorBody}]

----------------------------------------------------------------------------
(* Specifications *)

InitWith(ids) ==
    /\ environ \in Envs
    /\ GOOGLE_API_KEY = None
    /\ GOOGLE_CSE_ID = None
    /\ server = "boot"
    /\ call = [i \in ids |-> Idle]
    /\ wire = <<>>

Accepting(i) == server = "serving" /\ call[i].pc = "idle"

Awaiting(i) == call[i].pc = "awaiting"

NextWith(Args, Replies) ==
    \/ Startup
    \/ \E i \in DOMAIN call : Accepting(i) /\ \E args \in Args : ToolCall(i, args)
    \/ \E i \in DOMAIN call : Awaiting(i) /\ \E reply \in Replies : Respond(i, reply)
    \/ \E i \in DOMAIN call : ConnectFail(i)
    \/ \E i \in DOMAIN call : TimedOut(i)

\* One invocation, every shape of request, a handful of replies.
Init == InitWith({1})

Next == NextWith(ArgsWide, RepliesNarrow)

Spec == Init /\ [][Next]_vars

\* One invocation, conforming requests, every shape of reply.
InitT == InitWith({1})

NextT == NextWith(ArgsPaging, RepliesWide)

SpecT == InitT /\ [][NextT]_vars

\* Concurrent invocations.
InitConc == InitWith(1..NCalls)

NextConc == NextWith(ArgsFew, RepliesFew)

SpecConc == InitConc /\ [][NextConc]_vars

\* The client's timeout is armed for every GET it issues, and the module's
\* top level runs when the process starts.
Fairness ==
    /\ WF_vars(Startup)
    /\ \A i \in 1..NCalls : WF_vars(TimedOut(i))

SpecFair == InitConc /\ [][NextConc]_vars /\ Fairness

----------------------------------------------------------------------------
(* Vocabulary of the properties *)

Settled(i) == call[i].pc = "done"

Outcome(i) == call[i].outcome[1]

HasReturned(i) == call[i].outcome # None /\ Outcome(i).kind = "return"

Response(i) == Outcome(i).value

Replied(i) == call[i].reply # None

Reply(i) == call[i].reply[1]

Is2xx(status) == status \in 200..299

Sent(i) == call[i].args[1]

SentNum(i) == IF Sent(i).num = None THEN 5 ELSE Sent(i).num[1]

SentStart(i) == IF Sent(i).start = None THEN 1 ELSE Sent(i).start[1]

UpstreamItems(i) ==
    IF Reply(i).body.items = None THEN <<>> ELSE Reply(i).body.items[1]

GetsOf(i) == {k \in 1..Len(wire) : wire[k].call = i}

ResultFields == {"title", "link", "snippet", "displayLink"}

UpstreamErrors == {"HTTPStatusError", "ConnectError", "TimeoutException"}

----------------------------------------------------------------------------
(* C1 *)

\* C1: when google_search returns, nextStart is start + num if the upstream
\* items list has exactly num entries, and is None for any other length
\* (longer, shorter or empty).
C1_NextStart ==
    \A i \in DOMAIN call :
        HasReturned(i) =>
            /\ Len(UpstreamItems(i)) = SentNum(i)
                 => Response(i).nextStart = Some(SentStart(i) + SentNum(i))
            /\ Len(UpstreamItems(i)) # SentNum(i)
                 => Response(i).nextStart = None

C1_Witness ==
    /\ HasReturned(1)
    /\ Sent(1).start = Some(2)
    /\ Sent(1).num = Some(3)
    /\ Len(UpstreamItems(1)) = 3
    /\ Response(1).nextStart = Some(5)

----------------------------------------------------------------------------
(* C2 *)

\* C2 as stated: every optional field the caller supplied is in the outbound
\* parameters with the caller's value, and every field not supplied is not.
C2_AsStated ==
    \A k \in 1..Len(wire) : \A f \in OptionalParams :
        LET given == Sent(wire[k].call)[f]
        IN  /\ given # None => f \in DOMAIN wire[k].params /\ wire[k].params[f] = given[1]
            /\ given = None => f \notin DOMAIN wire[k].params

\* C2, amended: an optional field supplied with a non-empty value is in the
\* outbound parameters with exactly that value; a field not supplied, or
\* supplied as the empty string, is not in them at all, so no optional
\* parameter is ever sent as an empty string.
C2_OptionalParams ==
    \A k \in 1..Len(wire) : \A f \in OptionalParams :
        LET given == Sent(wire[k].call)[f]
        IN  /\ (given # None /\ given[1] # "")
                 => f \in DOMAIN wire[k].params /\ wire[k].params[f] = given[1]
            /\ (given = None \/ given = Some(""))
                 => f \notin DOMAIN wire[k].params
            /\ f \in DOMAIN wire[k].params => wire[k].params[f] # ""

C2_Witness ==
    /\ Len(wire) = 1
    /\ Sent(1).lr = Some("lang_en")
    /\ Sent(1).gl = None
    /\ Sent(1).cr = Some("")
    /\ Sent(1).siteSearch = Some("example.com")
    /\ DOMAIN wire[1].params = BaseParams \cup {"lr", "siteSearch"}
    /\ wire[1].params.lr = "lang_en"

----------------------------------------------------------------------------
(* C3 *)

SentTotal(i) ==
    IF Reply(i).body.searchInformation = None THEN None
    ELSE Reply(i).body.searchInformation[1].totalResults

\* C3: after every 2xx reply the call returns a SearchResponse whose
\* totalResults is the integer the upstream text denotes, and 0 when the
\* member is absent or its text is no integer; no exception is raised.
C3_TotalResults ==
    \A i \in DOMAIN call :
        (Replied(i) /\ Is2xx(Reply(i).status)) =>
            /\ HasReturned(i)
            /\ Response(i).totalResults =
                 IF SentTotal(i) # None /\ IsIntLiteral(SentTotal(i)[1].v)
                 THEN LiteralValue(SentTotal(i)[1].v)
                 ELSE 0

----------------------------------------------------------------------------
(* C4 *)

\* C4: a reply whose status is not 2xx ends the call with an HTTPStatusError
\* that carries that status; nothing is returned and the transformation is
\* never reached (the local results is never assigned).
C4_NonSuccess ==
    \A i \in DOMAIN call :
        (Replied(i) /\ ~Is2xx(Reply(i).status)) =>
            /\ Settled(i)
            /\ Outcome(i).kind = "HTTPStatusError"
            /\ Outcome(i).status = Reply(i).status
            /\ ~HasReturned(i)
            /\ call[i].results = None

C4_Witness ==
    /\ Replied(1)
    /\ Reply(1).status = 403
    /\ Outcome(1).kind = "HTTPStatusError"
    /\ Outcome(1).status = 403

----------------------------------------------------------------------------
(* C5 *)

ViolatesSchema(args) ==
    \/ args.query = None
    \/ args.num # None /\ args.num[1] \notin 1..10
    \/ args.start # None /\ args.start[1] < 1
    \/ args.safe # None /\ args.safe[1] \notin {"off", "active"}

\* C5: a call that violates the schema is rejected with a validation error
\* and no GET is ever issued for it.
C5_RejectedBeforeCall ==
    \A i \in DOMAIN call :
        (call[i].args # None /\ ViolatesSchema(Sent(i))) =>
            /\ call[i].pc = "rejected"
            /\ Outcome(i).kind = "ValidationError"
            /\ GetsOf(i) = {}
            /\ call[i].params = None

C5_Witness ==
    /\ call[1].pc = "rejected"
    /\ Sent(1).query = Some("rust")
    /\ Sent(1).num = Some(11)
    /\ Sent(1).start = None
    /\ Sent(1).safe = None
    /\ wire = <<>>

----------------------------------------------------------------------------
(* C6 *)

\* C6: every accepted call has issued exactly one GET, to the fixed
\* endpoint, while it waits and after it ends in any way (return, status
\* error, connection failure, timeout).
C6_OneGet ==
    \A i \in DOMAIN call :
        call[i].pc \in {"awaiting", "done"} =>
            /\ Cardinality(GetsOf(i)) = 1
            /\ \A k \in GetsOf(i) : wire[k].url = ENDPOINT

C6_Witness ==
    /\ Settled(1)
    /\ Outcome(1).kind = "TimeoutException"
    /\ Cardinality(GetsOf(1)) = 1

----------------------------------------------------------------------------
(* C7 *)

Configured(v) == v # None /\ v # Some("")

\* C7: with either secret absent or empty the process never serves and no
\* call is ever taken up, let alone failed; and whenever a call has been
\* taken up the server is serving with both secrets non-empty.
C7_Startup ==
    /\ (~Configured(environ.GOOGLE_API_KEY) \/ ~Configured(environ.GOOGLE_CSE_ID))
         => /\ server # "serving"
            /\ \A i \in DOMAIN call : call[i] = Idle
            /\ wire = <<>>
    /\ server = "serving"
         => Configured(GOOGLE_API_KEY) /\ Configured(GOOGLE_CSE_ID)
    /\ \A i \in DOMAIN call :
         call[i].pc # "idle"
            => /\ server = "serving"
               /\ Configured(GOOGLE_API_KEY)
               /\ Configured(GOOGLE_CSE_ID)

C7_Witness ==
    /\ server = "failed"
    /\ environ.GOOGLE_API_KEY = Some("")
    /\ environ.GOOGLE_CSE_ID = Some("cx-01")

----------------------------------------------------------------------------
(* C8 *)

\* C8: after every 2xx reply, results has one entry per upstream item, in
\* the upstream order, each holding exactly title, link, snippet and
\* displayLink with the item's value or None where the item lacks the
\* member; a response that is returned carries that list; and no absent
\* member (items, searchInformation, totalResults, or a member of an item)
\* makes the call raise.
C8_Projection ==
    \A i \in DOMAIN call :
        (Replied(i) /\ Is2xx(Reply(i).status)) =>
            /\ call[i].results # None
            /\ Len(call[i].results[1]) = Len(UpstreamItems(i))
            /\ \A k \in 1..Len(UpstreamItems(i)) :
                  /\ DOMAIN call[i].results[1][k] = ResultFields
                  /\ \A f \in ResultFields :
                        call[i].results[1][k][f] = UpstreamItems(i)[k][f]
            /\ HasReturned(i) => Response(i).results = call[i].results[1]
            /\ ~HasReturned(i) => SentTotal(i) # None

C8_Witness ==
    /\ HasReturned(1)
    /\ Reply(1).body.searchInformation = None
    /\ Len(UpstreamItems(1)) = 3
    /\ UpstreamItems(1)[1].displayLink = None
    /\ UpstreamItems(1)[2].displayLink = Some("rust-lang.org")
    /\ UpstreamItems(1)[3].title = None
    /\ Response(1).results[1].displayLink = None
    /\ Response(1).results[2].displayLink = Some("rust-lang.org")

----------------------------------------------------------------------------
(* C9 *)

Complete(i) ==
    /\ Settled(i)
    /\ call[i].outcome # None
    /\ \/ /\ Outcome(i).kind = "return"
          /\ DOMAIN Response(i) = {"query", "totalResults", "results", "nextStart"}
       \/ /\ Outcome(i).kind \in UpstreamErrors \cup {"ValueError"}
          /\ DOMAIN Outcome(i) \cap {"value"} = {}
    /\ ~Replied(i) => Outcome(i).kind \in {"TimeoutException", "ConnectError"}

\* C9: every accepted call eventually ends, and ends either with a complete
\* response (query, totalResults, results, nextStart) or with an error that
\* carries no response; a call the upstream never answers ends with the
\* timeout's error; once ended a call stays ended.
C9_Terminates ==
    /\ \A i \in 1..NCalls : (call[i].pc = "awaiting") ~> Complete(i)
    /\ \A i \in 1..NCalls : [](Settled(i) => [](Complete(i)))

C9_Witness ==
    /\ Complete(1)
    /\ Outcome(1).kind = "TimeoutException"
    /\ call[2].pc = "awaiting"

----------------------------------------------------------------------------
(* C10 *)

Ended(i) == call[i].pc \in {"done", "rejected"}

\* C10: under every interleaving, each GET carries the configured key and cx
\* and the q, num and start of the call that issued it; each response
\* repeats its own call's query and is built from its own reply; and two
\* calls with the same arguments and the same reply (or failure) end alike.
C10_Independent ==
    /\ \A k \in 1..Len(wire) :
          /\ wire[k].params.key = environ.GOOGLE_API_KEY[1]
          /\ wire[k].params.cx = environ.GOOGLE_CSE_ID[1]
          /\ wire[k].params.q = Sent(wire[k].call).query[1]
          /\ wire[k].params.num = SentNum(wire[k].call)
          /\ wire[k].params.start = SentStart(wire[k].call)
          /\ wire[k].params = call[wire[k].call].params[1]
    /\ \A i \in DOMAIN call :
          HasReturned(i) =>
              /\ Response(i).query = Sent(i).query[1]
              /\ Len(Response(i).results) = Len(UpstreamItems(i))
              /\ Response(i).nextStart \in {None, Some(SentStart(i) + SentNum(i))}
              /\ Response(i).nextStart # None
                    <=> Len(UpstreamItems(i)) = SentNum(i)
    /\ \A i, j \in DOMAIN call :
          (Ended(i) /\ Ended(j) /\ call[i].args = call[j].args
                /\ call[i].reply = call[j].reply
                /\ (Replied(i) \/ Outcome(i).kind = Outcome(j).kind))
             => call[i] = call[j]

C10_Witness ==
    /\ Len(wire) = 2
    /\ wire[1].call = 2
    /\ HasReturned(1) /\ HasReturned(2)
    /\ Response(1).query = "rust" /\ Response(2).query = "go"
    /\ Response(1).nextStart = Some(2) /\ Response(2).nextStart = None
    /\ wire[1].params.q = "go" /\ wire[2].params.q = "rust"

====
